---- MODULE Spec2Model ----
(***************************************************************************)
(* Model of goodlinks2insta.py: the sync of GoodLinks links to Instapaper. *)
(* A link is modelled by its id (url and title are only passed through to  *)
(* the HTTP request and the log).  The state file synced.json is modelled  *)
(* by fileState ("absent", "ok", "corrupt") and, when "ok", the id set     *)
(* fileIds it holds.                                                       *)
(***************************************************************************)
EXTENDS Integers, Sequences, FiniteSets, TLC

\* ---------------------------------------------------------------- bounds
MaxLinks == 11        \* longest list of distinct links the source returns
MaxDupLen == 2        \* longest list in which ids may repeat, and longest
                      \* list that is synced by more than one run
MaxDupId == 2         \* ids used in the lists with repeats
MaxRetriesArg == 3    \* largest --max-retries value
MaxFaults == 4        \* non-201 responses in one behaviour
MaxRuns == 2          \* sync runs in one behaviour

\* ------------------------------------------------------ program constants
FlushEvery == 10      \* "if i % 10 == 0"

VARIABLES
    links,        \* what get_goodlinks() returns: sequence of ids
    launchCfg,    \* config["launch_goodlinks"]
    appRunning,   \* is the GoodLinks process running
    fileState,    \* STATE_FILE: "absent", "ok" (parseable), "corrupt"
    fileIds,      \* the ids in STATE_FILE when fileState = "ok"
    pc,           \* position in cmd_sync
    dry,          \* args.dry_run
    maxRetries,   \* args.max_retries
    wasRunning,   \* cmd_sync local was_running
    synced,       \* cmd_sync local synced
    toSync,       \* cmd_sync local to_sync
    i,            \* cmd_sync loop index (enumerate from 1)
    newCount,     \* cmd_sync local new_count
    failedCount,  \* cmd_sync local failed_count
    tries,        \* requests posted by the current / last add_to_instapaper call
    waits,        \* time.sleep arguments of the current / last call
    lastResp,     \* response of the last request
    lastResult,   \* how the last request left the call: "retry", "ok", "fail", "raise"
    exc,          \* exception propagating out of the try block
    statusOut,    \* what cmd_status printed
    reqs,         \* requests posted in the current / last run
    faults,       \* non-201 responses so far
    runs,         \* sync runs started so far
    prev,         \* how the last sync run without --dry-run ended
    flushedOk,    \* ids confirmed Success and saved by an earlier run
    flushedRun,   \* ids confirmed Success and saved by the current run
    lastSaveAt,   \* loop index at the last completed save of the run
    loaded,       \* what load_synced_ids returned to the run
    okItems,      \* loop indexes whose add_to_instapaper call returned True
    atStart,      \* the ids STATE_FILE held when the run began
    launched      \* launch_goodlinks() was called by the run and returned

vars == <<links, launchCfg, appRunning, fileState, fileIds, pc, dry,
          maxRetries, wasRunning, synced, toSync, i, newCount, failedCount,
          tries, waits, lastResp, lastResult, exc, statusOut, reqs,
          faults, runs, prev, flushedOk, flushedRun, lastSaveAt, loaded,
          okItems, atStart, launched>>

\* what the source and the configuration are
cfgVars == <<links, launchCfg>>

\* the locals of a cmd_sync run
syncVars == <<dry, maxRetries, wasRunning, synced, toSync, i, newCount,
             failedCount, tries, waits, lastResp, lastResult, exc, reqs,
             lastSaveAt, loaded, okItems, atStart>>

runVars == <<syncVars, launched>>

\* --------------------------------------------------------------- inputs
Ids == 1 .. MaxLinks

Distinct(n) == [k \in 1 .. n |-> k]

\* ids are only compared for equality, so of the lists that differ by a
\* renaming of the ids only the one that numbers its ids in the order of
\* their first occurrence is kept
FirstOccurrenceOrder(q) ==
    \A k \in 1 .. Len(q) :
        \/ q[k] = 1
        \/ \E j \in 1 .. k - 1 : q[j] = q[k] - 1

LinkChoices ==
    { Distinct(n) : n \in {0, MaxLinks - 1, MaxLinks} }
    \cup { q \in UNION { [1 .. n -> 1 .. MaxDupId] : n \in 1 .. MaxDupLen } :
              FirstOccurrenceOrder(q) }

\* HTTP status codes and requests exceptions of one requests.post
Responses == {"201", "403", "400", "503", "404", "Timeout", "ConnectionError", "RequestException"}

Transient == {"503", "Timeout", "ConnectionError"}

\* ---------------------------------------------------------- pure helpers
\* load_synced_ids that forgets the file
LoadSyncedIdsNone == {}

\* load_synced_ids, on a file that parses or is absent
LoadSyncedIds == IF fileState = "ok" THEN fileIds ELSE {}

\* to_sync without the filter
ToSyncAll(ls, s) == ls

\* to_sync with the membership test inverted
ToSyncSynced(ls, s) == SelectSeq(ls, LAMBDA l : l \in s)

\* to_sync = [l for l in links if l["id"] not in synced]
ToSync(ls, s) == SelectSeq(ls, LAMBDA l : l \notin s)

\* the if/elif chain without its 403 branch: 403 is one more client error
ClassifyNoAuth(r) ==
    CASE r = "201" -> "ok"
      [] r \in Transient -> "transient"
      [] OTHER -> "fail"

\* the if/elif chain with 400 raising as 403 does
ClassifyBadRequestRaises(r) ==
    CASE r = "201" -> "ok"
      [] r \in {"403", "400"} -> "raise"
      [] r \in Transient -> "transient"
      [] OTHER -> "fail"

\* the if/elif chain with every status that is not 201, 403 or 400 retried
ClassifyRetriesClientErrors(r) ==
    CASE r = "201" -> "ok"
      [] r = "403" -> "raise"
      [] r = "400" -> "fail"
      [] r \in Transient \cup {"404"} -> "transient"
      [] OTHER -> "fail"

\* the if/elif chain with 400 counted as a success
ClassifyBadRequestOk(r) ==
    CASE r \in {"201", "400"} -> "ok"
      [] r = "403" -> "raise"
      [] r \in Transient -> "transient"
      [] OTHER -> "fail"

\* the if/elif chain and the except clauses of add_to_instapaper
Classify(r) ==
    CASE r = "201" -> "ok"
      [] r = "403" -> "raise"
      [] r = "400" -> "fail"
      [] r \in Transient -> "transient"
      [] OTHER -> "fail"

\* the retry test one short
MayRetryShort(attempt, mr) == attempt < mr - 1

\* "if attempt < max_retries"
MayRetry(attempt, mr) == attempt < mr

\* "wait_time = 2**attempt"
WaitTime(attempt) == 2 ^ attempt

\* the flush test with the index counted from 0
ShouldFlushFromZero(n) == (n - 1) % FlushEvery = 0

\* the flush test with an interval one too long
ShouldFlushLate(n) == n % (FlushEvery + 1) = 0

\* "if i % 10 == 0"
ShouldFlush(n) == n % FlushEvery = 0

\* the dry-run test dropped
DryRunIgnored(d) == FALSE

\* "if args.dry_run"
DryRunReturns(d) == d

\* json.loads never raising: a file that does not parse reads as empty
LoadRaisesNever == FALSE

\* json.loads(STATE_FILE.read_text()) raises JSONDecodeError
LoadRaises == fileState = "corrupt"

\* a save that writes only the ids added since the load
SavedIdsNewOnly(ids) == ids \ loaded

\* "STATE_FILE.write_text(json.dumps(list(ids)))": the whole set is written
SavedIds(ids) == ids

\* cmd_reset without its unlink
UnlinkSkipped(st) == st

\* "if STATE_FILE.exists(): STATE_FILE.unlink()"
Unlinked(st) == "absent"

\* the two lines cmd_reset can print
ResetOutputs == {<<"Sync state reset">>, <<"No sync state to reset">>}

\* ids whose publish succeeded in the current run
OkRun == { toSync[k] : k \in okItems }

\* the id set a load of STATE_FILE would give now (empty when there is
\* nothing to parse)
Persisted == IF fileState = "ok" THEN fileIds ELSE {}

\* ----------------------------------------------------------------- Init
Init ==
    /\ links \in LinkChoices
    /\ launchCfg \in BOOLEAN
    /\ appRunning \in BOOLEAN
    /\ fileState = "absent"
    /\ fileIds = {}
    /\ pc = "idle"
    /\ dry = FALSE
    /\ maxRetries = 0
    /\ wasRunning = FALSE
    /\ synced = {}
    /\ toSync = <<>>
    /\ i = 0
    /\ newCount = 0
    /\ failedCount = 0
    /\ tries = 0
    /\ waits = <<>>
    /\ lastResp = "none"
    /\ lastResult = "none"
    /\ exc = "none"
    /\ statusOut = <<>>
    /\ reqs = 0
    /\ faults = 0
    /\ runs = 0
    /\ prev = "none"
    /\ flushedOk = {}
    /\ flushedRun = {}
    /\ lastSaveAt = 0
    /\ loaded = {}
    /\ okItems = {}
    /\ atStart = {}
    /\ launched = FALSE

\* -------------------------------------------------------------- actions
\* the process exits: the locals of the run are gone
ClearRun ==
    /\ dry' = FALSE
    /\ maxRetries' = 0
    /\ wasRunning' = FALSE
    /\ synced' = {}
    /\ toSync' = <<>>
    /\ i' = 0
    /\ newCount' = 0
    /\ failedCount' = 0
    /\ tries' = 0
    /\ waits' = <<>>
    /\ lastResp' = "none"
    /\ lastResult' = "none"
    /\ exc' = "none"
    /\ reqs' = 0
    /\ lastSaveAt' = 0
    /\ loaded' = {}
    /\ okItems' = {}
    /\ atStart' = {}
    /\ launched' = FALSE

\* cmd_sync up to "was_running = is_goodlinks_running()"
SyncBegin(d, mr) ==
    /\ pc = "idle"
    /\ runs < MaxRuns
    /\ runs = 0 \/ Len(links) <= MaxDupLen
    /\ runs' = runs + 1
    /\ pc' = "ensure"
    /\ dry' = d
    /\ maxRetries' = mr
    /\ wasRunning' = appRunning
    /\ statusOut' = <<>>
    /\ atStart' = Persisted
    /\ launched' = FALSE
    /\ UNCHANGED <<synced, toSync, i, newCount, failedCount, tries, waits,
                   lastResp, lastResult, exc, reqs, lastSaveAt, loaded,
                   okItems>>
    /\ UNCHANGED <<cfgVars, appRunning, fileState, fileIds, faults, prev,
                   flushedOk, flushedRun>>

\* the run returns or raises before the try block: no finally clause runs
EndEarly(how) ==
    /\ pc' = "idle"
    /\ prev' = IF dry THEN prev ELSE how
    /\ ClearRun

\* ensure_goodlinks_running up to launch_goodlinks(), and the early return
\* of cmd_sync when nothing is launched
Ensure ==
    /\ pc = "ensure"
    /\ \/ /\ appRunning
          /\ pc' = "fetch"
          /\ UNCHANGED <<appRunning, prev>>
          /\ UNCHANGED runVars
       \/ /\ ~appRunning
          /\ launchCfg
          /\ \/ /\ appRunning' \in BOOLEAN
                /\ launched' = TRUE
                /\ pc' = "recheck"
                /\ UNCHANGED <<prev, syncVars>>
             \/ /\ EndEarly("launcherror")
                /\ UNCHANGED appRunning
       \/ /\ ~appRunning
          /\ ~launchCfg
          /\ EndEarly("skipped")
          /\ UNCHANGED appRunning
    /\ UNCHANGED <<cfgVars, fileState, fileIds, statusOut, faults, runs,
                   flushedOk, flushedRun>>

\* ensure_goodlinks_running after the launch: the second
\* is_goodlinks_running(), and the early return of cmd_sync when it fails
Recheck ==
    /\ pc = "recheck"
    /\ IF appRunning
       THEN /\ pc' = "fetch"
            /\ UNCHANGED prev
            /\ UNCHANGED runVars
       ELSE EndEarly("skipped")
    /\ UNCHANGED <<cfgVars, appRunning, fileState, fileIds, statusOut,
                   faults, runs, flushedOk, flushedRun>>

\* moving on after item number n has been processed
AfterItem(n, len) ==
    IF ShouldFlush(n) THEN /\ pc' = "savePeriodic"
                           /\ i' = n
    ELSE IF n < len THEN /\ pc' = "call"
                         /\ i' = n + 1
    ELSE /\ pc' = "saveFinal"
         /\ i' = n

\* get_goodlinks, load_synced_ids, the to_sync filter, the dry-run and the
\* nothing-to-sync returns
Fetch ==
    /\ pc = "fetch"
    /\ \/ /\ exc' = "source"
          /\ pc' = "finally"
          /\ UNCHANGED <<synced, toSync, i, loaded>>
       \/ /\ LoadRaises
          /\ exc' = "state"
          /\ pc' = "finally"
          /\ UNCHANGED <<synced, toSync, i, loaded>>
       \/ /\ ~LoadRaises
          /\ loaded' = LoadSyncedIds
          /\ synced' = LoadSyncedIds
          /\ toSync' = ToSync(links, LoadSyncedIds)
          /\ exc' = exc
          /\ IF DryRunReturns(dry) \/ toSync' = <<>>
             THEN pc' = "finally" /\ i' = i
             ELSE pc' = "call" /\ i' = 1
    /\ UNCHANGED <<cfgVars, appRunning, fileState, fileIds, dry,
                   maxRetries, wasRunning, newCount, failedCount, tries,
                   waits, lastResp, lastResult, statusOut, reqs,
                   faults, runs, prev, flushedOk, flushedRun, lastSaveAt,
                   okItems, atStart, launched>>

\* one iteration of the "for attempt" loop of add_to_instapaper and, when
\* the call returns, the rest of the cmd_sync loop body
Attempt(r) ==
    /\ pc = "call"
    /\ r # "201" => faults < MaxFaults
    /\ LET attempt == IF lastResult = "retry" THEN tries ELSE 0
           sofar == IF lastResult = "retry" THEN waits ELSE <<>>
           class == Classify(r)
           retry == class = "transient" /\ MayRetry(attempt, maxRetries)
           \* range(max_retries + 1) exhausted after a retry: "return False"
           exhausted == retry /\ attempt + 1 > maxRetries
           result == IF retry /\ ~exhausted THEN "retry"
                     ELSE IF class = "ok" THEN "ok"
                     ELSE IF class = "raise" THEN "raise"
                     ELSE "fail"
       IN /\ tries' = attempt + 1
          /\ reqs' = reqs + 1
          /\ faults' = IF r = "201" THEN faults ELSE faults + 1
          /\ lastResp' = r
          /\ lastResult' = result
          /\ waits' = IF retry THEN Append(sofar, WaitTime(attempt)) ELSE sofar
          /\ CASE result = "retry" ->
                    UNCHANGED <<pc, i, synced, newCount, failedCount, exc,
                                okItems>>
               [] result = "ok" ->
                    /\ synced' = synced \cup {toSync[i]}
                    /\ newCount' = newCount + 1
                    /\ okItems' = okItems \cup {i}
                    /\ AfterItem(i, Len(toSync))
                    /\ UNCHANGED <<failedCount, exc>>
               [] result = "fail" ->
                    /\ failedCount' = failedCount + 1
                    /\ AfterItem(i, Len(toSync))
                    /\ UNCHANGED <<synced, newCount, exc, okItems>>
               [] OTHER ->
                    /\ exc' = "auth"
                    /\ pc' = "finally"
                    /\ UNCHANGED <<i, synced, newCount, failedCount, okItems>>
    /\ UNCHANGED <<cfgVars, appRunning, fileState, fileIds, dry,
                   maxRetries, wasRunning, toSync, statusOut, runs,
                   prev, flushedOk, flushedRun, lastSaveAt, loaded, atStart,
                   launched>>

\* save_synced_ids, first half: mkdir and open(STATE_FILE, "w") truncate it
SaveOpen ==
    /\ pc \in {"savePeriodic", "saveFinal"}
    /\ pc' = IF pc = "savePeriodic" THEN "writePeriodic" ELSE "writeFinal"
    /\ fileState' = "corrupt"
    /\ fileIds' = {}
    /\ UNCHANGED <<cfgVars, appRunning, statusOut, faults,
                   runs, prev, flushedOk, flushedRun>>
    /\ UNCHANGED runVars

\* save_synced_ids, second half: the JSON text is written and the file closed
SaveWrite ==
    /\ pc \in {"writePeriodic", "writeFinal"}
    /\ fileState' = "ok"
    /\ fileIds' = SavedIds(synced)
    /\ flushedRun' = flushedRun \cup OkRun
    /\ lastSaveAt' = i
    /\ IF pc = "writeFinal" THEN pc' = "finally" /\ i' = i
       ELSE IF i < Len(toSync) THEN pc' = "call" /\ i' = i + 1
       ELSE pc' = "saveFinal" /\ i' = i
    /\ UNCHANGED <<cfgVars, appRunning, dry, maxRetries, wasRunning,
                   synced, toSync, newCount, failedCount, tries, waits,
                   lastResp, lastResult, exc, statusOut, reqs,
                   faults, runs, prev, flushedOk, loaded, okItems, atStart,
                   launched>>

\* how a run that reached its finally clause ends: with the exception that
\* propagates out of cmd_sync, or normally ("clean" when no item failed)
RunResult(e, failed) ==
    CASE e = "auth" -> "autherror"
      [] e = "source" -> "sourceerror"
      [] e = "state" -> "stateerror"
      [] OTHER -> IF failed = 0 THEN "clean" ELSE "done"

\* the finally clause of cmd_sync, and the end of the run
Finally ==
    /\ pc = "finally"
    /\ pc' = "idle"
    /\ IF ~wasRunning
       THEN \E quit \in BOOLEAN : appRunning' = IF quit THEN FALSE ELSE appRunning
       ELSE appRunning' = appRunning
    /\ prev' = IF dry THEN prev ELSE RunResult(exc, failedCount)
    /\ flushedOk' = flushedOk \cup flushedRun
    /\ flushedRun' = {}
    /\ ClearRun
    /\ UNCHANGED <<cfgVars, fileState, fileIds, statusOut, faults, runs>>

\* the process is terminated in the middle of a sync run
Crash ==
    /\ pc # "idle"
    /\ pc' = "idle"
    /\ prev' = IF dry THEN prev ELSE "killed"
    /\ flushedOk' = flushedOk \cup flushedRun
    /\ flushedRun' = {}
    /\ ClearRun
    /\ UNCHANGED <<cfgVars, appRunning, fileState, fileIds, statusOut,
                   faults, runs>>

\* cmd_status
Status ==
    /\ pc = "idle"
    /\ \/ statusOut' = <<"error">>
       \/ /\ ~LoadRaises
          /\ statusOut' = <<Len(links), Cardinality(LoadSyncedIds),
                            Len(ToSync(links, LoadSyncedIds))>>
       \/ /\ LoadRaises
          /\ statusOut' = <<"error">>
    /\ UNCHANGED <<cfgVars, appRunning, fileState, fileIds, pc,
                   faults, runs, prev, flushedOk, flushedRun>>
    /\ UNCHANGED runVars

\* cmd_reset
Reset ==
    /\ pc = "idle"
    /\ fileState' = Unlinked(fileState)
    /\ fileIds' = IF fileState' = "absent" THEN {} ELSE fileIds
    /\ statusOut' = IF fileState # "absent" THEN <<"Sync state reset">>
                    ELSE <<"No sync state to reset">>
    /\ prev' = "none"
    /\ flushedOk' = {}
    /\ UNCHANGED <<cfgVars, appRunning, pc, faults, runs, flushedRun>>
    /\ UNCHANGED runVars

\* the user starts GoodLinks, between two commands or while cmd_sync is
\* between its two is_goodlinks_running checks
UserStartsApp ==
    /\ pc \in {"idle", "ensure"}
    /\ ~appRunning
    /\ appRunning' = TRUE
    /\ UNCHANGED <<cfgVars, fileState, fileIds, pc, statusOut,
                   faults, runs, prev, flushedOk, flushedRun>>
    /\ UNCHANGED runVars

Next ==
    \/ \E d \in BOOLEAN, mr \in 0 .. MaxRetriesArg : SyncBegin(d, mr)
    \/ Ensure
    \/ Recheck
    \/ Fetch
    \/ \E r \in Responses : Attempt(r)
    \/ SaveOpen
    \/ SaveWrite
    \/ Finally
    \/ Crash
    \/ Status
    \/ Reset
    \/ UserStartsApp

Spec == Init /\ [][Next]_vars

\* ---------------------------------------------------------------- claims
\* a step that posts one request to Instapaper
PublishStep == reqs' = reqs + 1

\* the positions of the publish loop of cmd_sync (the "for i, link" loop)
LoopPcs == {"call", "savePeriodic", "writePeriodic"}

\* C1 (as stated): a sync run that follows a completed sync run posts no
\* request, whatever the first run's items did.
C1_SecondRunSilent ==
    (pc # "idle" /\ ~dry /\ prev \in {"clean", "done"}) => reqs = 0

\* C1 (amended): a sync run that follows a sync run which fetched the links
\* and in which every publish call returned Success posts no request.
C1_SecondRunSilentAfterClean ==
    (pc # "idle" /\ ~dry /\ prev = "clean") => reqs = 0

C1_Witness ==
    /\ pc = "finally" /\ ~dry /\ exc = "none"
    /\ prev = "clean" /\ flushedOk # {}
    /\ Len(links) > 1 /\ toSync = <<>> /\ reqs = 0

\* C2: no request is posted for an id that an earlier run published with
\* Success and saved (no reset since).
C2_NoRepublish ==
    [][PublishStep => toSync[i] \notin flushedOk]_vars

C2_Witness ==
    /\ pc = "finally" /\ reqs > 0
    /\ \E k \in 1 .. Len(links) : links[k] \in flushedOk

\* C3: when the 403 exception leaves the loop, every id published with
\* Success in this run is in the state file.
C3_AbortFlushes ==
    (pc = "finally" /\ exc = "auth") => OkRun \subseteq Persisted

\* C4: once a request is answered 403 the run posts no further request, it
\* is on its way out with the authentication error, and it ends with it
\* (unless the process is killed first).
C4_AuthShortCircuit ==
    [][lastResp = "403" =>
          /\ pc = "finally" /\ exc = "auth"
          /\ ~PublishStep
          /\ pc' = "idle"
          /\ prev' \in {"autherror", "killed"}]_vars

C4_Witness ==
    /\ lastResp = "403" /\ pc = "finally"
    /\ reqs > 1 /\ i < Len(toSync)

\* C5: the k-th wait of a publish call is 2^k seconds.
C5_BackoffWaits ==
    \A k \in 1 .. Len(waits) : waits[k] = 2 ^ k

\* C6: a publish call goes on only while attempts remain, and a call whose
\* last (hence every) attempt was transient has made maxRetries + 1 attempts
\* and returned failure.
C6_TransientExhausts ==
    /\ tries <= maxRetries + 1
    /\ lastResult = "retry" => tries <= maxRetries
    /\ (lastResp \in Transient /\ lastResult # "retry") =>
          (tries = maxRetries + 1 /\ lastResult = "fail" /\ failedCount > 0)

C6_Witness ==
    /\ lastResp \in Transient /\ lastResult = "fail"
    /\ maxRetries = MaxRetriesArg /\ tries = MaxRetriesArg + 1

\* no id occurs twice in the sequence
NoRepeat(q) == \A a, b \in 1 .. Len(q) : q[a] = q[b] => a = b

\* C7: the state file is written after each item whose number is a multiple
\* of 10 and once after the last item, nowhere else in the run, and each
\* write holds the loaded set plus the ids published with Success so far.
C7_PeriodicFlush ==
    [][/\ pc' \in {"savePeriodic", "writePeriodic"} => (i' > 0 /\ i' % 10 = 0)
       /\ pc' \in {"saveFinal", "writeFinal"} => i' = Len(toSync')
       /\ pc' = "call" => lastSaveAt' = ((i' - 1) \div 10) * 10
       /\ (pc' = "finally" /\ exc' = "none" /\ ~dry' /\ toSync' # <<>>) =>
             (lastSaveAt' = Len(toSync') /\ Persisted' = loaded' \cup OkRun')
       /\ lastSaveAt' # lastSaveAt /\ pc' # "idle" =>
             /\ lastSaveAt' = i
             /\ fileState' = "ok"
             /\ fileIds' = loaded \cup OkRun
             /\ (failedCount = 0 /\ NoRepeat(toSync)) =>
                   Cardinality(fileIds' \ loaded) = i
       /\ (pc # "idle" /\ pc \notin {"savePeriodic", "writePeriodic",
                                      "saveFinal", "writeFinal"}) =>
             (fileState' = fileState /\ fileIds' = fileIds)]_vars

C7_Witness ==
    /\ pc = "call" /\ i = 11
    /\ lastSaveAt = 10 /\ failedCount > 0
    /\ Cardinality(fileIds) = newCount

\* C8 (as stated): at every point of the publish loop at most 9 ids
\* published with Success in this run are missing from the state file.
C8_CrashLosesAtMost9 ==
    pc \in LoopPcs => Cardinality(OkRun \ Persisted) <= 9

\* the ids published with Success in this run that the next run would
\* publish again, were the run killed now
Republished ==
    IF fileState = "corrupt" THEN {}
    ELSE { id \in OkRun : \E k \in 1 .. Len(links) :
              links[k] = id /\ id \notin Persisted }

\* C8 (amended): at every point of the publish loop outside a write of the
\* state file at most 10 ids published with Success in this run are missing
\* from the state file, and at every point the next run would publish at
\* most 10 of them again.
C8_CrashLosesAtMost10 ==
    pc \in LoopPcs =>
        /\ fileState # "corrupt" => Cardinality(OkRun \ Persisted) <= 10
        /\ Cardinality(Republished) <= 10

C8_Witness ==
    /\ pc = "savePeriodic"
    /\ Cardinality(OkRun \ Persisted) = 10
    /\ Cardinality(Republished) = 10

\* a step of a dry-run sync
DryStep == (pc # "idle" /\ dry) \/ (pc = "idle" /\ pc' = "ensure" /\ dry')

\* a step of the status command
StatusStep ==
    statusOut' # statusOut /\ statusOut' \notin ({<<>>} \cup ResetOutputs)

\* C9: no step of a dry-run sync or of status posts a request or changes
\* the state file.
C9_ReadOnly ==
    [][(DryStep \/ StatusStep) =>
          /\ ~PublishStep
          /\ fileState' = fileState
          /\ fileIds' = fileIds]_vars

C9_Witness ==
    /\ pc = "finally" /\ dry /\ exc = "none"
    /\ toSync # <<>> /\ fileState = "ok" /\ reqs = 0

\* C10: no request is posted for an id that this run has already published
\* with Success.
C10_DuplicateOnce ==
    [][PublishStep => toSync[i] \notin OkRun]_vars

\* the links of L whose id is not in S, in the order of L
RECURSIVE Pending(_, _)
Pending(L, S) ==
    IF L = <<>> THEN <<>>
    ELSE (IF Head(L) \in S THEN <<>> ELSE <<Head(L)>>) \o Pending(Tail(L), S)

\* the ids of a list
IdsOf(q) == { q[k] : k \in 1 .. Len(q) }

\* C11: the items a run attempts are the links whose id the store did not
\* hold when the run began, one after the other in source order, all of them
\* when the run completes; every id a save adds to the store is one of the
\* items attempted so far, hence an id of the source list.
C11_PendingInOrder ==
    [][/\ (pc = "fetch" /\ pc' # "idle" /\ exc' \notin {"source", "state"})
            => toSync' = Pending(links, atStart)
       /\ PublishStep =>
            /\ toSync = Pending(links, atStart)
            /\ i \in 1 .. Len(toSync)
            /\ toSync[i] \notin atStart
       /\ (pc # "idle" /\ pc' # "idle" /\ i' # i) => i' = i + 1
       /\ (pc \notin {"fetch", "finally"} /\ pc' = "finally" /\ exc' = "none")
            => i = Len(toSync)
       /\ (fileState' = "ok" /\ fileIds' # fileIds) =>
            /\ fileIds' \ atStart \subseteq { toSync[k] : k \in 1 .. i }
            /\ fileIds' \ atStart \subseteq IdsOf(links)]_vars

C11_Witness ==
    /\ pc = "finally" /\ exc = "none" /\ ~dry
    /\ atStart # {} /\ toSync # <<>> /\ Len(toSync) < Len(links)
    /\ fileState = "ok" /\ fileIds \ atStart # {}

\* a step of the reset command that prints something new
ResetStep == statusOut' # statusOut /\ statusOut' \in ResetOutputs

\* C12: a sync run (dry or not) that ends by returning or by raising leaves
\* in the store every id the store held when it began, and between runs only
\* reset takes ids out of the store.
C12_StoreOnlyGrows ==
    [][/\ (pc \in {"ensure", "recheck", "finally"} /\ pc' = "idle")
            => atStart \subseteq Persisted'
       /\ (pc = "idle" /\ ~ResetStep) => Persisted \subseteq Persisted']_vars

C12_Witness ==
    /\ pc = "finally" /\ ~dry /\ runs = 2
    /\ atStart # {} /\ atStart \subseteq Persisted /\ atStart # Persisted

\* C13: a status that follows a reset reports as many synced ids as 0 and
\* as many pending links as the source has links.
C13_ResetThenStatus ==
    [][(statusOut \in ResetOutputs /\ StatusStep /\ statusOut' # <<"error">>)
          => statusOut' = <<Len(links), 0, Len(links)>>]_vars

C13_Witness ==
    /\ pc = "idle" /\ prev = "none" /\ faults > 0 /\ fileState = "absent"
    /\ Len(links) > 0 /\ statusOut = <<Len(links), 0, Len(links)>>

\* C14: a call that ends in a failure of its item (400, another status that
\* is not 201, 403 or a 5xx, a network error, retries used up) raises
\* nothing: the loop goes on with the next item or with a save, and a run
\* that completes with failed items has just written the final save.
C14_ItemFailureContinues ==
    [][/\ (PublishStep /\ lastResp' \notin {"201", "403"}
                       /\ lastResult' # "retry") =>
            /\ exc' = "none"
            /\ failedCount' = failedCount + 1
            /\ IF i < Len(toSync)
               THEN (pc' = "call" /\ i' = i + 1) \/ pc' = "savePeriodic"
               ELSE pc' \in {"savePeriodic", "saveFinal"}
       /\ (pc # "finally" /\ pc' = "finally" /\ exc' = "none"
                          /\ failedCount' > 0) =>
            /\ pc = "writeFinal"
            /\ i = Len(toSync)
            /\ fileState' = "ok" /\ fileIds' = synced]_vars

C14_Witness ==
    /\ pc = "finally" /\ exc = "none" /\ failedCount > 0
    /\ \E k \in okItems : k > 1 /\ (k - 1) \notin okItems
    /\ fileState = "ok" /\ lastSaveAt = Len(toSync)

\* C15: GoodLinks stops running only in a run that launched it itself.
C15_QuitsOnlyOwnLaunch ==
    [][(appRunning /\ ~appRunning') => launched]_vars

\* C16: a run that launched GoodLinks and then ends, by returning or by
\* raising, ends through the finally clause with the quit attempt in it.
C16_QuitAfterOwnLaunch ==
    [][(launched /\ pc' = "idle"
                 /\ (pc = "finally" \/ (pc = "recheck" /\ ~appRunning)))
          => (pc = "finally" /\ ~wasRunning)]_vars

\* C17: whenever no run is in progress, however the last one ended, the
\* state file is absent or holds a complete set: it is never truncated or
\* unparseable.
C17_SaveAtomic ==
    pc = "idle" => fileState # "corrupt"

\* C18: synced gains an id only from a call answered 201, the store only
\* holds ids of such calls, an item whose call failed is not added, and
\* every link whose id no flushed success covers is pending in a later run.
C18_OnlySuccessIsStored ==
    [][/\ (pc = "call" /\ pc' # "idle" /\ synced' # synced) =>
            /\ lastResp' = "201"
            /\ synced' = synced \cup {toSync[i]}
       /\ Persisted' \subseteq flushedOk' \cup flushedRun'
       /\ (PublishStep /\ lastResult' \in {"fail", "raise"}
                       /\ toSync[i] \notin OkRun) => toSync[i] \notin synced'
       /\ (pc = "fetch" /\ pc' # "idle" /\ exc' = "none") =>
            IdsOf(links) \ flushedOk \subseteq IdsOf(toSync')]_vars

C18_Witness ==
    /\ pc = "finally" /\ exc = "none" /\ runs = 2 /\ failedCount > 0
    /\ atStart # {} /\ toSync # <<>> /\ toSync[1] \notin Persisted
    /\ fileState = "ok"

\* C19: an attempt answered 201 ends the call with Success; one answered
\* 400, another client status or another network error ends it with a
\* failure and adds no wait; an attempt is followed by another attempt of
\* the same call only after a 5xx, a timeout or a connection error.
C19_EndsAtFirstNonTransient ==
    [][PublishStep =>
          /\ lastResp' = "201" => lastResult' = "ok"
          /\ lastResp' \in {"400", "404", "RequestException"} =>
                /\ lastResult' = "fail"
                /\ waits' = IF lastResult = "retry" THEN waits ELSE <<>>
          /\ lastResult' = "retry" => lastResp' \in Transient
          /\ tries' > 1 => (lastResult = "retry" /\ lastResp \in Transient)]_vars

C19_Witness ==
    /\ lastResp = "404" /\ lastResult = "fail" /\ maxRetries = MaxRetriesArg
    /\ tries = 2 /\ Len(waits) = 1

\* C20: a run that finds a state file it cannot parse goes to its end with
\* an exception, posts no request and leaves the file as it found it.
C20_CorruptStateSurfaces ==
    [][/\ (pc = "fetch" /\ fileState = "corrupt" /\ pc' # "idle") =>
            /\ pc' = "finally"
            /\ exc' \in {"source", "state"}
            /\ ~PublishStep
            /\ fileState' = "corrupt"
       /\ exc = "state" =>
            /\ reqs = 0
            /\ ~PublishStep
            /\ fileState = "corrupt" /\ fileState' = "corrupt"]_vars

C20_Witness ==
    /\ pc = "finally" /\ exc = "state" /\ ~dry /\ links # <<>>
    /\ fileState = "corrupt" /\ reqs = 0
====
